---- MODULE Spec2Model ----
(***************************************************************************)
(* A model of topognn/models.py: the topological aggregation layer         *)
(* (TopologyLayer), the host models built around it (FiltrationGCNModel,   *)
(* GCNModel, LargerGCNModel) and the class-weighted loss.                   *)
(*                                                                         *)
(* Tensors are functions over 0-based index ranges, as in Python; a row of *)
(* a 2-d tensor is a sequence of its columns, so torch.cat(.., 1) is \o.   *)
(* Reals are integers: every learned map of the model (linear layers,      *)
(* ReLU, tent and line coordinate functions) maps integers to integers.    *)
(***************************************************************************)
EXTENDS Integers, Sequences, FiniteSets, TLC

(* Bounds of the model. *)
MaxNodes == 3
MaxEdges == 2
MaxGraphs == 2
MaxFiltrations == 2
MaxValue == 1

VARIABLES layer, batch, x, pc, filtered_v, filtered_e, persistences0,
          persistences1, coord_activations, out_activations,
          graph_activations1, result, first,
          hargs, built, hpc, stages, hdata, hx, hx_dim1, label, loss_weight,
          c_activations, c_mask, c_slices, c_out

layer_vars == <<layer, batch, x, pc, filtered_v, filtered_e, persistences0,
                persistences1, coord_activations, out_activations,
                graph_activations1, result, first>>

\* Python's None and a present value; an optional is one or the other.
host_vars == <<hargs, built, hpc, stages, hdata, hx, hx_dim1, label,
               loss_weight>>

\* collapse_dim1 on its own: its three arguments and what it returns.
unit_vars == <<c_activations, c_mask, c_slices, c_out>>

vars == <<layer_vars, host_vars, unit_vars>>

None == [some |-> FALSE]

Some(v) == [some |-> TRUE, v |-> v]

\* The outcome of code that may raise: the value, or the exception's type.
Ok(v) == [err |-> "", v |-> v]

Raise(e) == [err |-> e]

IsError(r) == r.err # ""

(***************************************************************************)
(* Arithmetic helpers.                                                     *)
(***************************************************************************)
Max2(a, b) == IF a >= b THEN a ELSE b

Abs(a) == IF a >= 0 THEN a ELSE -a

\* torch.nn.ReLU
Relu(a) == Max2(a, 0)

RECURSIVE SeqSum(_)
SeqSum(s) == IF s = <<>> THEN 0 ELSE s[1] + SeqSum(Tail(s))

\* A row of `width` zeros: what Tensor.sum(axis=0) gives for no rows.
Zeros(width) == [j \in 1..width |-> 0]

\* Element-wise sum of the rows act[r], r \in rows (Tensor.sum(axis=0)).
RECURSIVE SumRows(_, _, _)
SumRows(act, rows, width) ==
    IF rows = {} THEN Zeros(width)
    ELSE LET r == CHOOSE r \in rows : TRUE
             rest == SumRows(act, rows \ {r}, width)
         IN [j \in 1..width |-> act[r][j] + rest[j]]

\* torch.cat(rows, 1) of a list of rows
RECURSIVE CatRows(_)
CatRows(rows) == IF rows = <<>> THEN <<>> ELSE rows[1] \o CatRows(Tail(rows))

(***************************************************************************)
(* The batched graph (torch_geometric Batch): __slices__['x'] and          *)
(* __slices__['edge_index'] are lists of B+1 offsets, edge_index is [2, E].*)
(***************************************************************************)
\* Offsets of consecutive slices with the given lengths: <<0, c1, c1+c2, ..>>
Slices(counts) ==
    [i \in 1..(Len(counts) + 1) |-> SeqSum(SubSeq(counts, 1, i - 1))]

NumGraphs(b) == Len(b.x_slices) - 1

NumNodes(b) == b.x_slices[Len(b.x_slices)]

NumEdges(b) == b.e_slices[Len(b.e_slices)]

\* The rows of graph g (1..B) under a list of slice offsets.
SliceRows(slices, g) == {r \in 0..(slices[g + 1] - 1) : r >= slices[g]}

NodeCounts ==
    {nc \in UNION {[1..B -> 1..MaxNodes] : B \in 1..MaxGraphs} :
        SeqSum(nc) <= MaxNodes}

\* Edges per graph; a graph of one node has none (no self loops).  An edge
\* is listed from its lower to its higher node.
EdgeCounts(nc) ==
    {ec \in [1..Len(nc) -> 0..MaxEdges] :
        /\ SeqSum(ec) <= MaxEdges
        /\ \A g \in 1..Len(nc) : ec[g] > 0 => nc[g] >= 2}

EdgeIndexSet(nc, ec) ==
    LET xs == Slices(nc)
        es == Slices(ec)
        E == SeqSum(ec)
        N == SeqSum(nc)
    IN {ei \in [0..1 -> [0..(E - 1) -> 0..(N - 1)]] :
          \A e \in 0..(E - 1) :
            /\ ei[0][e] < ei[1][e]
            /\ \E g \in 1..Len(nc) :
                 /\ e \in SliceRows(es, g)
                 /\ ei[0][e] \in SliceRows(xs, g)
                 /\ ei[1][e] \in SliceRows(xs, g)}

Batches ==
    UNION {UNION {{[x_slices |-> Slices(nc), e_slices |-> Slices(ec),
                    edge_index |-> ei] : ei \in EdgeIndexSet(nc, ec)}
                  : ec \in EdgeCounts(nc)}
           : nc \in NodeCounts}

\* Node features [N, features_in]
Features(b, features_in) ==
    [0..(NumNodes(b) - 1) -> [1..features_in -> 0..MaxValue]]

(***************************************************************************)
(* Learned modules.  A dict of coordinate-function counts is the sequence  *)
(* of its (key, output_dim) items in insertion order; a count is optional. *)
(***************************************************************************)
\* The filtration heads: Sequential(Linear(features_in, filtration_hidden),
\* ReLU, Linear(filtration_hidden, 1)), frozen at these parameters: odd
\* heads keep the order of the first feature, even heads reverse it.
FiltrationParams(f) ==
    [w1 |-> IF f % 2 = 1 THEN 1 ELSE -1,
     b1 |-> IF f % 2 = 1 THEN 0 ELSE MaxValue,
     w2 |-> 1,
     b2 |-> f \div 3]

\* filtration_mod.forward on one row of x: a row of one column (every input
\* feature weighs w1).
FiltrationModule(p, row) ==
    <<p.w2 * Relu(p.w1 * SeqSum(row) + p.b1) + p.b2>>

\* The parameter settings a coordinate-function module may have learned.
CoordParams == {[t |-> 1, slope |-> 1, intercept |-> 0],
                [t |-> 0, slope |-> 1, intercept |-> 1]}

\* getattr(coord_transforms, key)(output_dim=...): an unset width is fatal.
CoordTransform(key, output_dim, theta) ==
    IF output_dim = None THEN Raise("TypeError")
    ELSE Ok([key |-> key, output_dim |-> output_dim.v, theta |-> theta])

\* Triangle_transform.forward on one pair: a tent centred on t.
Triangle_transform(m, p) ==
    [j \in 1..m.output_dim |-> Relu(p[2] - Abs(m.theta.t - p[1]))]

\* Line_transform.forward on one pair: slope and intercept.
Line_transform(m, p) ==
    [j \in 1..m.output_dim |->
        m.theta.slope * p[1] + m.theta.slope * p[2] + m.theta.intercept]

\* mod.forward(persistence)[r] for one coordinate-function module
CoordModForward(m, p) ==
    IF m.key = "Triangle_transform" THEN Triangle_transform(m, p)
    ELSE Line_transform(m, p)

\* Linear that takes a row of any width.
LinearAnyWidth(lin, row) == Ok([j \in 1..lin.out_features |-> SeqSum(row)])

\* torch.nn.Linear: weights frozen at 1, bias at 0; the input width must be
\* in_features.
Linear(lin, row) ==
    IF Len(row) # lin.in_features THEN Raise("RuntimeError")
    ELSE Ok([j \in 1..lin.out_features |-> SeqSum(row)])

\* np.array(list(d.values())).sum(): fails on an unset count.
DictSum(d) ==
    IF \E i \in 1..Len(d) : d[i].output_dim = None THEN Raise("TypeError")
    ELSE Ok(SeqSum([i \in 1..Len(d) |-> d[i].output_dim.v]))

\* [getattr(coord_transforms, key)(output_dim=d[key]) for key in d]
CoordFunModules(d, theta) ==
    LET made == [i \in 1..Len(d) |->
                    CoordTransform(d[i].key, d[i].output_dim, theta)]
    IN IF \E i \in 1..Len(d) : IsError(made[i])
       THEN made[CHOOSE i \in 1..Len(d) :
                   /\ IsError(made[i])
                   /\ \A k \in 1..(i - 1) : ~IsError(made[k])]
       ELSE Ok([i \in 1..Len(d) |-> made[i].v])

(***************************************************************************)
(* TopologyLayer.__init__: the layer, or the error construction raises.    *)
(***************************************************************************)
\* Dim1Modules that builds no dimension-1 modules when the counts are unset.
Dim1ModulesLenient(dim1, num_coord_funs1, theta1) ==
    IF ~dim1 \/ num_coord_funs1 = None THEN Ok(None)
    ELSE LET made == CoordFunModules(num_coord_funs1.v, theta1)
         IN IF IsError(made) THEN made ELSE Ok(Some(made.v))

\* lines 73-78: the dimension-1 coordinate functions (None without dim1).
Dim1Modules(dim1, num_coord_funs1, theta1) ==
    IF ~dim1 THEN Ok(None)
    ELSE IF num_coord_funs1 = None THEN Raise("AssertionError")
    ELSE LET made == CoordFunModules(num_coord_funs1.v, theta1)
         IN IF IsError(made) THEN made ELSE Ok(Some(made.v))

\* lines 89-92
InOutDim(set2set, features_in, set_out_dim, num_filtrations, total) ==
    IF set2set THEN features_in + set_out_dim * num_filtrations
    ELSE features_in + num_filtrations * total

TopologyLayerInit(a) ==
    LET total == DictSum(a.num_coord_funs)
        mods == CoordFunModules(a.num_coord_funs, a.theta)
        mods1 == Dim1Modules(a.dim1, a.num_coord_funs1, a.theta1)
    IN IF IsError(total) THEN total
       ELSE IF IsError(mods) THEN mods
       ELSE IF IsError(mods1) THEN mods1
       ELSE Ok([dim1 |-> a.dim1,
                features_in |-> a.features_in,
                features_out |-> a.features_out,
                num_filtrations |-> a.num_filtrations,
                num_coord_funs |-> a.num_coord_funs,
                filtration_hidden |-> a.filtration_hidden,
                total_num_coord_funs |-> total.v,
                coord_fun_modules |-> mods.v,
                set2set |-> a.set2set,
                set_out_dim |-> a.set_out_dim,
                coord_fun_modules1 |-> mods1.v,
                filtration_modules |->
                    [f \in 1..a.num_filtrations |-> FiltrationParams(f)],
                out |-> [in_features |->
                             InOutDim(a.set2set, a.features_in, a.set_out_dim,
                                      a.num_filtrations, total.v),
                         out_features |-> a.features_out]])

(***************************************************************************)
(* TopologyLayer.compute_persistence                                       *)
(***************************************************************************)
\* Transpose done as a reshape: the entries keep their row-major order and
\* are cut into rows of the new length.
TransposeReshaped(t, rows, cols) ==
    [c \in 0..(cols - 1) |->
        [r \in 0..(rows - 1) |->
            LET i == c * rows + r
            IN t[i \div cols][(i % cols) + 1]]]

\* The [rows, cols] tensor t (rows of 1-based columns) transposed and made
\* contiguous: [cols, rows], both 0-based.
Transpose(t, rows, cols) ==
    [c \in 0..(cols - 1) |-> [r \in 0..(rows - 1) |-> t[r][c + 1]]]

\* lines 103-104: one column per filtration head, [N, F]
FilteredV(l, xs) ==
    [n \in DOMAIN xs |->
        CatRows([f \in 1..Len(l.filtration_modules) |->
                    FiltrationModule(l.filtration_modules[f], xs[n])])]

\* EdgeReduce taking the lower endpoint value.
EdgeReduceMin(a, b) == IF a <= b THEN a ELSE b

\* EdgeReduce taking the value of the edge's first endpoint.
EdgeReduceFirst(a, b) == a

\* The reduction of line 106 over the two endpoints' values.
EdgeReduce(a, b) == Max2(a, b)

\* lines 106-107: the edge extension, [E, F]
FilteredE(fv, edge_index, E, F) ==
    [e \in 0..(E - 1) |->
        [f \in 1..F |-> EdgeReduce(fv[edge_index[0][e]][f],
                                   fv[edge_index[1][e]][f])]]

\* The (0, 0) pair that pads the slots of absent features.
Sentinel == <<0, 0>>

\* The elements of the set S in increasing order of val, ties by index.
RECURSIVE SortBy(_, _)
SortBy(S, val) ==
    IF S = {} THEN <<>>
    ELSE LET m == CHOOSE m \in S :
                    \A o \in S : val[m] < val[o] \/ (val[m] = val[o] /\ m <= o)
         IN <<m>> \o SortBy(S \ {m}, val)

\* Whether the component of root a is older than that of root b: born at a
\* lower value, ties by index.
Elder(a, b, fv) == fv[a] < fv[b] \/ (fv[a] = fv[b] /\ a <= b)

\* The sweep of one graph under one filtration over its edges in `order`:
\* an edge that joins two components pairs the younger root's birth with the
\* edge's value, in the slot of that root; an edge inside one component
\* closes a cycle, born at the edge's value and alive to the end of the
\* sweep (`last`), in the slot of the edge.
RECURSIVE Sweep(_, _, _, _, _, _, _, _)
Sweep(order, root, p0, p1, fv, fe, ei, last) ==
    IF order = <<>> THEN [p0 |-> p0, p1 |-> p1]
    ELSE LET e == Head(order)
             ru == root[ei[e][1]]
             rv == root[ei[e][2]]
             older == IF Elder(ru, rv, fv) THEN ru ELSE rv
             younger == IF Elder(ru, rv, fv) THEN rv ELSE ru
         IN IF ru = rv
            THEN Sweep(Tail(order), root, p0,
                       [p1 EXCEPT ![e] = <<fe[e], last>>], fv, fe, ei, last)
            ELSE Sweep(Tail(order),
                       [n \in DOMAIN root |->
                           IF root[n] = younger THEN older ELSE root[n]],
                       [p0 EXCEPT ![younger] = <<fv[younger], fe[e]>>],
                       p1, fv, fe, ei, last)

\* The graphs g..B swept one after the other under one filtration.
RECURSIVE SweepGraphs(_, _, _, _, _, _, _, _)
SweepGraphs(g, p0, p1, fv, fe, ei, vertex_slices, edge_slices) ==
    IF g > Len(vertex_slices) - 1 THEN [p0 |-> p0, p1 |-> p1]
    ELSE LET order == SortBy(SliceRows(edge_slices, g), fe)
             last == IF order = <<>> THEN 0 ELSE fe[order[Len(order)]]
             swept == Sweep(order, [n \in DOMAIN fv |-> n], p0, p1, fv, fe,
                            ei, last)
         IN SweepGraphs(g + 1, swept.p0, swept.p1, fv, fe, ei,
                        vertex_slices, edge_slices)

\* compute_persistence_homology_batched_mt: per filtration and graph the
\* union-find sweep with the elder rule; dimension 0 is [F, N, 2] and
\* dimension 1 is [F, E, 2], graph g's pairs in g's node (edge) slice and
\* every other slot the sentinel.
PersistenceHomology(fv_t, fe_t, ei_t, vertex_slices, edge_slices) ==
    LET N == vertex_slices[Len(vertex_slices)]
        E == edge_slices[Len(edge_slices)]
        per == [f \in DOMAIN fv_t |->
                   SweepGraphs(1, [n \in 0..(N - 1) |-> Sentinel],
                               [e \in 0..(E - 1) |-> Sentinel],
                               fv_t[f], fe_t[f], ei_t, vertex_slices,
                               edge_slices)]
    IN [p0 |-> [f \in DOMAIN fv_t |-> per[f].p0],
        p1 |-> [f \in DOMAIN fv_t |-> per[f].p1]]

\* lines 102-120: what compute_persistence hands to the primitive.
PersistenceInputs(l, xs, b) ==
    LET N == NumNodes(b)
        E == NumEdges(b)
        F == Len(l.filtration_modules)
        fv == FilteredV(l, xs)
        fe == FilteredE(fv, b.edge_index, E, F)
    IN [filtered_v |-> Transpose(fv, N, F),
        filtered_e |-> Transpose(fe, E, F),
        edge_index |-> [e \in 0..(E - 1) |->
                           <<b.edge_index[0][e], b.edge_index[1][e]>>],
        vertex_slices |-> b.x_slices,
        edge_slices |-> b.e_slices]

(***************************************************************************)
(* Coordinate functions and aggregation.  A 2-d activation tensor is       *)
(* [rows, cols, at]: its shape and its rows, so that a tensor of no rows   *)
(* keeps its width.                                                        *)
(***************************************************************************)
\* Set2SetMod.forward: per row the attention-pooled vector of the row's
\* graph, over the graph's pairs that are not the sentinel.
Set2SetMod(persistence, slices, dim_out) ==
    LET n == Cardinality(DOMAIN persistence)
        pooled(g) == SumRows([r \in DOMAIN persistence |->
                                 <<persistence[r][1] + persistence[r][2]>>],
                             {r \in SliceRows(slices, g) :
                                 persistence[r] # Sentinel}, 1)[1]
        graph(r) == CHOOSE g \in 1..(Len(slices) - 1) :
                        r \in SliceRows(slices, g)
    IN [rows |-> n, cols |-> dim_out,
        at |-> [r \in DOMAIN persistence |->
                   [j \in 1..dim_out |-> pooled(graph(r))]]]

\* torch.cat([mod.forward(persistence) for mod in mods], 1)
CoordFunCat(mods, persistence) ==
    [rows |-> Cardinality(DOMAIN persistence),
     cols |-> SeqSum([i \in 1..Len(mods) |-> mods[i].output_dim]),
     at |-> [r \in DOMAIN persistence |->
                CatRows([i \in 1..Len(mods) |->
                            CoordModForward(mods[i], persistence[r])])]]

\* lines 145-165
compute_coord_fun(l, persistence, b, dim1) ==
    IF dim1
    THEN IF l.set2set
         THEN Set2SetMod(persistence, b.e_slices, l.set_out_dim)
         ELSE CoordFunCat(l.coord_fun_modules1.v, persistence)
    ELSE IF l.set2set
         THEN Set2SetMod(persistence, b.x_slices, l.set_out_dim)
         ELSE CoordFunCat(l.coord_fun_modules, persistence)

\* lines 167-175: one block of columns per entry of persistences
compute_coord_activations(l, persistences, b, dim1) ==
    LET F == Cardinality(DOMAIN persistences)
        per == [f \in 1..F |->
                   compute_coord_fun(l, persistences[f - 1], b, dim1)]
    IN [rows |-> per[1].rows,
        cols |-> SeqSum([f \in 1..F |-> per[f].cols]),
        at |-> [r \in 0..(per[1].rows - 1) |->
                   CatRows([f \in 1..F |-> per[f].at[r]])]]

\* PySlice that forgets the lower offset: t[:hi].
PySliceFromStart(n, lo, hi) == {r \in 0..(n - 1) : r < hi}

\* The rows a Python slice t[lo:hi] keeps of a tensor of n rows.
PySlice(n, lo, hi) == {r \in 0..(n - 1) : lo <= r /\ r < hi}

\* CollapseOne without the mask: every row of the slice is summed.
CollapseOneUnmasked(activations, mask, lo, hi) ==
    SumRows(activations.at, PySlice(activations.rows, lo, hi),
            activations.cols)

\* CollapseOne with the upper offset taken inclusive.
CollapseOneInclusive(activations, mask, lo, hi) ==
    SumRows(activations.at,
            {r \in PySlice(activations.rows, lo, hi + 1) : mask[r]},
            activations.cols)

\* One entry of the loop of lines 189-193: the rows of the slice the mask
\* keeps, summed.
CollapseOne(activations, mask, lo, hi) ==
    SumRows(activations.at,
            {r \in PySlice(activations.rows, lo, hi) : mask[r]},
            activations.cols)

\* collapse_dim1 that hands the per-slot activations back uncollapsed.
collapse_dim1_per_slot(activations, mask, slices) == activations

\* lines 177-195
collapse_dim1(activations, mask, slices) ==
    [rows |-> Len(slices) - 1,
     cols |-> activations.cols,
     at |-> [el \in 0..(Len(slices) - 2) |->
                CollapseOne(activations, mask, slices[el + 1],
                            slices[el + 2])]]

\* line 208: (persistences1 != 0).any(2).any(0)
Persistence1Mask(pers1) ==
    [e \in DOMAIN pers1[0] |->
        \E f \in DOMAIN pers1 : pers1[f][e][1] # 0 \/ pers1[f][e][2] # 0]

\* line 203: torch.cat((x, coord_activations), 1)
ConcatActivations(xs, features_in, act) ==
    IF Cardinality(DOMAIN xs) # act.rows THEN Raise("RuntimeError")
    ELSE Ok([rows |-> act.rows, cols |-> features_in + act.cols,
             at |-> [r \in DOMAIN xs |-> xs[r] \o act.at[r]]])

\* line 205: self.out on every row
OutActivations(l, concat) ==
    IF \E r \in DOMAIN concat.at : IsError(Linear(l.out, concat.at[r]))
    THEN Raise("RuntimeError")
    ELSE Ok([rows |-> concat.rows, cols |-> l.out.out_features,
             at |-> [r \in DOMAIN concat.at |->
                        Linear(l.out, concat.at[r]).v]])

\* lines 207-217
GraphActivations1(l, p1, b) ==
    IF l.dim1
    THEN Some(collapse_dim1(compute_coord_activations(l, p1, b, TRUE),
                            Persistence1Mask(p1), b.e_slices))
    ELSE None

(***************************************************************************)
(* The layers under study, and TopologyLayer.forward as a state machine:   *)
(* a call takes a batch, the steps follow lines 199-219, the return hands  *)
(* the pair back and drops the locals.                                     *)
(***************************************************************************)
\* The coordinate-function counts of the layers: two families.
CoordFuns == <<[key |-> "Triangle_transform", output_dim |-> Some(1)],
               [key |-> "Line_transform", output_dim |-> Some(1)]>>

LayerArgs ==
    {[features_in |-> 1, features_out |-> 2, num_filtrations |-> F,
      num_coord_funs |-> CoordFuns, filtration_hidden |-> 1,
      num_coord_funs1 |-> Some(CoordFuns), dim1 |-> d, set2set |-> s,
      set_out_dim |-> 2, theta |-> th, theta1 |-> th1] :
        F \in 1..MaxFiltrations, d \in BOOLEAN, s \in BOOLEAN,
        th \in CoordParams, th1 \in CoordParams}

Layers ==
    {TopologyLayerInit(a).v :
        a \in {a \in LayerArgs : ~IsError(TopologyLayerInit(a))}}

Locals == <<filtered_v, filtered_e, persistences0, persistences1,
            coord_activations, out_activations, graph_activations1>>

\* The locals of a call kept on the layer after it.
LocalsKept == UNCHANGED Locals

LocalsDropped ==
    /\ filtered_v' = None
    /\ filtered_e' = None
    /\ persistences0' = None
    /\ persistences1' = None
    /\ coord_activations' = None
    /\ out_activations' = None
    /\ graph_activations1' = None

\* forward(x, batch) is called.
Call(b, xs) ==
    /\ pc = "idle"
    /\ batch = None
    /\ batch' = Some(b)
    /\ x' = Some(xs)
    /\ result' = None
    /\ pc' = "compute_persistence"
    /\ UNCHANGED <<layer, Locals>>
    /\ UNCHANGED <<first, host_vars, unit_vars>>

\* line 199: compute_persistence, with the blocking call of the primitive.
ComputePersistence ==
    /\ pc = "compute_persistence"
    /\ LET in == PersistenceInputs(layer, x.v, batch.v)
       IN /\ filtered_v' = Some(in.filtered_v)
          /\ filtered_e' = Some(in.filtered_e)
          /\ LET o == PersistenceHomology(in.filtered_v, in.filtered_e,
                                          in.edge_index, in.vertex_slices,
                                          in.edge_slices)
             IN /\ persistences0' = Some(o.p0)
                /\ persistences1' = Some(o.p1)
    /\ pc' = "dim0"
    /\ UNCHANGED <<layer, batch, x, result, coord_activations,
                   out_activations, graph_activations1>>
    /\ UNCHANGED <<first, host_vars, unit_vars>>

\* lines 200-205: the dimension-0 path.
Dim0 ==
    /\ pc = "dim0"
    /\ LET act == compute_coord_activations(layer, persistences0.v, batch.v,
                                            FALSE)
           concat == ConcatActivations(x.v, layer.features_in, act)
           out == IF IsError(concat) THEN concat
                  ELSE OutActivations(layer, concat.v)
       IN /\ coord_activations' = Some(act)
          /\ IF IsError(out)
             THEN /\ result' = out
                  /\ pc' = "raised"
                  /\ out_activations' = None
             ELSE /\ out_activations' = Some(out.v)
                  /\ pc' = "dim1"
                  /\ result' = result
    /\ UNCHANGED <<layer, batch, x, filtered_v, filtered_e, persistences0,
                   persistences1, graph_activations1>>
    /\ UNCHANGED <<first, host_vars, unit_vars>>

\* lines 207-217: the dimension-1 path.
Dim1 ==
    /\ pc = "dim1"
    /\ graph_activations1' =
           Some(GraphActivations1(layer, persistences1.v, batch.v))
    /\ pc' = "return"
    /\ UNCHANGED <<layer, batch, x, result, filtered_v, filtered_e,
                   persistences0, persistences1, coord_activations,
                   out_activations>>
    /\ UNCHANGED <<first, host_vars, unit_vars>>

\* Return of a forward pass that also moves a parameter: the last bias of
\* the first filtration head flips between 0 and 1.
ReturnUnfrozen ==
    /\ pc = "return"
    /\ result' = Ok([out_activations |-> out_activations.v,
                     graph_activations1 |-> graph_activations1.v])
    /\ pc' = "idle"
    /\ LocalsDropped
    /\ layer' = [layer EXCEPT !.filtration_modules[1].b2 = 1 - @]
    /\ UNCHANGED <<batch, x>>
    /\ UNCHANGED <<first, host_vars, unit_vars>>

\* line 219
Return ==
    /\ pc = "return"
    /\ result' = Ok([out_activations |-> out_activations.v,
                     graph_activations1 |-> graph_activations1.v])
    /\ pc' = "idle"
    /\ LocalsDropped
    /\ UNCHANGED <<layer, batch, x>>
    /\ UNCHANGED <<first, host_vars, unit_vars>>

\* The caller is done with the batch and its output.
Discard ==
    /\ pc = "idle"
    /\ batch # None
    /\ batch' = None
    /\ x' = None
    /\ result' = None
    /\ first' = None
    /\ UNCHANGED <<layer, pc, Locals>>
    /\ UNCHANGED <<host_vars, unit_vars>>

\* The caller keeps the output and calls forward(x, batch) once more with
\* the same layer, the same x and the same batch.
Rerun ==
    /\ pc = "idle"
    /\ result # None
    /\ ~IsError(result)
    /\ first = None
    /\ first' = Some(result.v)
    /\ result' = None
    /\ pc' = "compute_persistence"
    /\ UNCHANGED <<layer, batch, x, Locals>>
    /\ UNCHANGED <<host_vars, unit_vars>>

\* A pair tensor with n entries along its first axis instead of the entries
\* the primitive owes: the first n entries, entry 0 again where none is left.
Resized(p, n) == [f \in 0..(n - 1) |-> IF f \in DOMAIN p THEN p[f] ELSE p[0]]

\* line 199 with a primitive that breaks its contract on the number of
\* filtrations: n0 entries in the dimension-0 tensor, n1 in the
\* dimension-1 tensor.
ComputePersistenceResized(n0, n1) ==
    /\ pc = "compute_persistence"
    /\ LET in == PersistenceInputs(layer, x.v, batch.v)
       IN /\ filtered_v' = Some(in.filtered_v)
          /\ filtered_e' = Some(in.filtered_e)
          /\ LET o == PersistenceHomology(in.filtered_v, in.filtered_e,
                                          in.edge_index, in.vertex_slices,
                                          in.edge_slices)
             IN /\ persistences0' = Some(Resized(o.p0, n0))
                /\ persistences1' = Some(Resized(o.p1, n1))
    /\ pc' = "dim0"
    /\ UNCHANGED <<layer, batch, x, result, coord_activations,
                   out_activations, graph_activations1>>
    /\ UNCHANGED <<first, host_vars, unit_vars>>

\* The forward pass of a raised call is over; the caller drops the batch.
DiscardRaised ==
    /\ pc = "raised"
    /\ batch' = None
    /\ x' = None
    /\ result' = None
    /\ first' = None
    /\ pc' = "idle"
    /\ LocalsDropped
    /\ UNCHANGED layer
    /\ UNCHANGED <<host_vars, unit_vars>>

LayerNext ==
    \/ \E b \in Batches : \E xs \in Features(b, layer.features_in) :
          Call(b, xs)
    \/ ComputePersistence
    \/ Dim0
    \/ Dim1
    \/ Return
    \/ Discard
    \/ Rerun

(***************************************************************************)
(* The class-weighted loss of LargerGCNModel (lines 583-596).  A weight is *)
(* the fraction <<numerator, denominator>>.                                *)
(***************************************************************************)
SeqMax(s) == CHOOSE m \in {s[i] : i \in 1..Len(s)} :
                 \A i \in 1..Len(s) : s[i] <= m

\* torch.bincount(label): the counts of the values 0..max(label)
BinCount(lab) ==
    [c \in 0..SeqMax(lab) |-> Cardinality({i \in 1..Len(lab) : lab[i] = c})]

\* label_count[label_count.nonzero(as_tuple=True)]: the counts that are not
\* zero, in the order of their classes.
NonzeroCounts(counts) ==
    LET classes == SortBy({c \in DOMAIN counts : counts[c] # 0},
                          [c \in DOMAIN counts |-> c])
    IN [k \in 1..Len(classes) |-> counts[classes[k]]]

\* torch.unique(label): the distinct labels in increasing order
Unique(lab) ==
    SortBy({lab[i] : i \in 1..Len(lab)}, [c \in 0..SeqMax(lab) |-> c])

\* lines 591-593: zeros, then the k-th present class gets the k-th count.
ClusterSizes(n_classes, lab) ==
    LET label_count == NonzeroCounts(BinCount(lab))
        unique == Unique(lab)
    IN [c \in 0..(n_classes - 1) |->
           IF \E k \in 1..Len(unique) : unique[k] = c
           THEN label_count[CHOOSE k \in 1..Len(unique) : unique[k] = c]
           ELSE 0]

\* PresentFactor without the test for an absent class.
PresentFactorAlways(size) == 1

\* line 595: the factor (cluster_sizes > 0).float()
PresentFactor(size) == IF size > 0 THEN 1 ELSE 0

\* WeightedLossWeights weighting a class by its own share, size / V.
WeightedLossWeightsBySize(n_classes, lab) ==
    LET V == Len(lab)
        cluster_sizes == ClusterSizes(n_classes, lab)
    IN [c \in 0..(n_classes - 1) |->
           <<cluster_sizes[c] * PresentFactor(cluster_sizes[c]), V>>]

\* lines 594-595: weight = (V - cluster_sizes) / V, times the factor
WeightedLossWeights(n_classes, lab) ==
    LET V == Len(lab)
        cluster_sizes == ClusterSizes(n_classes, lab)
    IN [c \in 0..(n_classes - 1) |->
           <<(V - cluster_sizes[c]) * PresentFactor(cluster_sizes[c]), V>>]

(***************************************************************************)
(* Construction of the host models.  A task is one of the two the models   *)
(* know or any other value.                                                *)
(***************************************************************************)
Tasks == {"GRAPH_CLASSIFICATION", "NODE_CLASSIFICATION", "OTHER"}

\* The four coordinate-function families of lines 237-247, each of the same
\* (optional) width.
FourFamilies(width) ==
    <<[key |-> "Triangle_transform", output_dim |-> width],
      [key |-> "Gaussian_transform", output_dim |-> width],
      [key |-> "Line_transform", output_dim |-> width],
      [key |-> "RationalHat_transform", output_dim |-> width]>>

\* PoolingFun that accepts every task and never refuses dim1.
PoolingFunAnyTask(kind, task, dim1, GIN) ==
    Ok(IF task = "GRAPH_CLASSIFICATION" THEN "global_mean_pool"
       ELSE "fake_pool")

\* lines 256-267 (FiltrationGCNModel), 401-422 (GCNModel), 556-563
\* (LargerGCNModel): the pooling function the task selects.
PoolingFun(kind, task, dim1, GIN) ==
    IF task = "GRAPH_CLASSIFICATION"
    THEN Ok(IF kind # "FiltrationGCNModel" /\ GIN THEN "global_add_pool"
            ELSE "global_mean_pool")
    ELSE IF task = "NODE_CLASSIFICATION"
    THEN IF kind = "FiltrationGCNModel" /\ dim1
         THEN Raise("NotImplementedError")
         ELSE Ok("fake_pool")
    ELSE Raise("RuntimeError")

\* lines 272-279: the width the cycles add to the classifier's input
CyclesDim(dim1, set2set, set_out_dim, num_filtrations, coord_funs1) ==
    IF dim1
    THEN IF set2set THEN Ok(set_out_dim * num_filtrations)
         ELSE LET total == DictSum(coord_funs1)
              IN IF IsError(total) THEN total
                 ELSE Ok(num_filtrations * total.v)
    ELSE Ok(0)

\* LossOf selecting by the task alone, whatever the model.
LossOfByTask(kind, task) ==
    IF task = "NODE_CLASSIFICATION" THEN "weighted_loss"
    ELSE "CrossEntropyLoss"

\* line 285 (FiltrationGCNModel), line 435 (GCNModel), lines 573-598
\* (LargerGCNModel): the loss the model is given.
LossOf(kind, task) ==
    IF kind = "LargerGCNModel" /\ task = "NODE_CLASSIFICATION"
    THEN "weighted_loss"
    ELSE "CrossEntropyLoss"

\* FiltrationGCNModel.__init__ (lines 227-295)
FiltrationGCNModelInit(a) ==
    LET coord_funs == FourFamilies(Some(a.num_coord_funs))
        coord_funs1 == FourFamilies(a.num_coord_funs1)
        topo1 == TopologyLayerInit(
                     [features_in |-> a.hidden_dim,
                      features_out |-> a.hidden_dim,
                      num_filtrations |-> a.num_filtrations,
                      num_coord_funs |-> coord_funs,
                      filtration_hidden |-> a.filtration_hidden,
                      num_coord_funs1 |-> Some(coord_funs1),
                      dim1 |-> a.dim1, set2set |-> a.set2set,
                      set_out_dim |-> a.set_out_dim,
                      theta |-> a.theta, theta1 |-> a.theta])
        pooling_fun == PoolingFun("FiltrationGCNModel", a.task, a.dim1, FALSE)
        cycles_dim == CyclesDim(a.dim1, a.set2set, a.set_out_dim,
                                a.num_filtrations, coord_funs1)
    IN IF IsError(topo1) THEN topo1
       ELSE IF IsError(pooling_fun) THEN pooling_fun
       ELSE IF IsError(cycles_dim) THEN cycles_dim
       ELSE Ok([kind |-> "FiltrationGCNModel",
                hidden_dim |-> a.hidden_dim,
                num_classes |-> a.num_classes,
                depth |-> 0,
                topo1 |-> Some(topo1.v),
                pooling_fun |-> pooling_fun.v,
                set2set |-> a.set2set,
                dim1 |-> a.dim1,
                classif_in |-> a.hidden_dim + cycles_dim.v,
                loss |-> LossOf("FiltrationGCNModel", a.task)])

\* GCNModel.__init__ (lines 384-445)
GCNModelInit(a) ==
    LET pooling_fun == PoolingFun("GCNModel", a.task, FALSE, a.GIN)
    IN IF IsError(pooling_fun) THEN pooling_fun
       ELSE Ok([kind |-> "GCNModel",
                hidden_dim |-> a.hidden_dim,
                num_classes |-> a.num_classes,
                depth |-> 0,
                topo1 |-> None,
                pooling_fun |-> pooling_fun.v,
                set2set |-> a.set2set,
                dim1 |-> FALSE,
                classif_in |-> a.hidden_dim,
                loss |-> LossOf("GCNModel", a.task)])

\* LargerGCNModel.__init__ (lines 536-608); kwargs must hold lr_patience and
\* min_lr.
LargerGCNModelInit(a) ==
    LET pooling_fun == PoolingFun("LargerGCNModel", a.task, FALSE, a.GIN)
    IN IF IsError(pooling_fun) THEN pooling_fun
       ELSE IF ~a.lr_kwargs THEN Raise("KeyError")
       ELSE Ok([kind |-> "LargerGCNModel",
                hidden_dim |-> a.hidden_dim,
                num_classes |-> a.num_classes,
                depth |-> a.depth,
                topo1 |-> None,
                pooling_fun |-> pooling_fun.v,
                set2set |-> a.set2set,
                dim1 |-> FALSE,
                classif_in |-> a.hidden_dim,
                loss |-> LossOf("LargerGCNModel", a.task)])

\* TopologyLayer(...) constructed directly by a caller.
DirectLayerInit(a) ==
    LET made == TopologyLayerInit(
                    [features_in |-> a.hidden_dim,
                     features_out |-> a.hidden_dim,
                     num_filtrations |-> a.num_filtrations,
                     num_coord_funs |-> CoordFuns,
                     filtration_hidden |-> a.filtration_hidden,
                     num_coord_funs1 |->
                         IF a.num_coord_funs1 = None THEN None
                         ELSE Some(CoordFuns),
                     dim1 |-> a.dim1, set2set |-> a.set2set,
                     set_out_dim |-> a.set_out_dim,
                     theta |-> a.theta, theta1 |-> a.theta])
    IN IF IsError(made) THEN made
       ELSE Ok([kind |-> "TopologyLayer", topo1 |-> Some(made.v)])

Kinds == {"TopologyLayer", "FiltrationGCNModel", "GCNModel", "LargerGCNModel"}

Build(kind, a) ==
    IF kind = "TopologyLayer" THEN DirectLayerInit(a)
    ELSE IF kind = "FiltrationGCNModel" THEN FiltrationGCNModelInit(a)
    ELSE IF kind = "GCNModel" THEN GCNModelInit(a)
    ELSE LargerGCNModelInit(a)

(***************************************************************************)
(* The host models as a state machine: construction, the forward pass call *)
(* by call on the shapes of the tensors, and the loss of a training step.  *)
(***************************************************************************)
HostArgs ==
    {[hidden_dim |-> 2, filtration_hidden |-> 1, num_node_features |-> 1,
      num_classes |-> 3, task |-> t, num_filtrations |-> F,
      num_coord_funs |-> 1, dim1 |-> d, num_coord_funs1 |-> n1,
      set2set |-> s, set_out_dim |-> 2, GIN |-> g, depth |-> 2,
      lr_kwargs |-> k, theta |-> CHOOSE th \in CoordParams : th.intercept = 1]
       : t \in Tasks, F \in 1..MaxFiltrations, d \in BOOLEAN,
         n1 \in {None, Some(1)}, s \in BOOLEAN, g \in BOOLEAN, k \in BOOLEAN}

\* The arguments a constructor reads; the others keep their defaults.
ArgsOf(kind) ==
    {a \in HostArgs :
        /\ kind \in {"TopologyLayer", "FiltrationGCNModel"} => ~a.GIN
        /\ kind \in {"GCNModel", "LargerGCNModel"} =>
              ~a.dim1 /\ a.num_coord_funs1 = None /\ a.num_filtrations = 1
        /\ kind # "LargerGCNModel" => a.lr_kwargs
        /\ kind = "TopologyLayer" => a.task = "GRAPH_CLASSIFICATION"}

Construct(kind, a) ==
    /\ hpc = "new"
    /\ hargs' = Some([kind |-> kind, args |-> a])
    /\ built' = Build(kind, a)
    /\ hpc' = IF IsError(Build(kind, a)) THEN "failed" ELSE "idle"
    /\ UNCHANGED <<stages, hdata, hx, hx_dim1, label, loss_weight>>
    /\ UNCHANGED <<layer_vars, unit_vars>>

\* The shapes TopologyLayer.forward returns for x of shape xs and B graphs:
\* lines 199-219 on shapes.
TopoForwardShape(l, xs, B) ==
    LET F == l.num_filtrations
        width(mods) == SeqSum([i \in 1..Len(mods) |-> mods[i].output_dim])
        cols0 == IF l.set2set THEN F * l.set_out_dim
                 ELSE F * width(l.coord_fun_modules)
        cols1 == IF l.set2set THEN F * l.set_out_dim
                 ELSE F * width(l.coord_fun_modules1.v)
    IN IF xs.cols # l.features_in \/ xs.cols + cols0 # l.out.in_features
       THEN Raise("RuntimeError")
       ELSE Ok([x |-> [rows |-> xs.rows, cols |-> l.out.out_features],
                x_dim1 |-> IF l.dim1 THEN Some([rows |-> B, cols |-> cols1])
                           ELSE None])

\* The first call of a forward pass.
FirstCall(m) ==
    IF m.kind = "TopologyLayer" THEN "topo1"
    ELSE IF m.kind = "LargerGCNModel" THEN "embedding"
    ELSE "conv1"

\* forward(data) is called on the built object with N nodes in B graphs.
HForwardCall(N, B) ==
    /\ hpc = "idle"
    /\ hdata' = Some([N |-> N, B |-> B])
    /\ hx' = Some([rows |-> N,
                   cols |-> IF built.v.kind = "TopologyLayer"
                            THEN built.v.topo1.v.features_in
                            ELSE hargs.v.args.num_node_features])
    /\ hx_dim1' = None
    /\ stages' = <<>>
    /\ hpc' = FirstCall(built.v)
    /\ UNCHANGED <<hargs, built, label, loss_weight>>
    /\ UNCHANGED <<layer_vars, unit_vars>>

\* An exception leaves the forward pass.
HRaise(e) ==
    /\ hpc' = "raised"
    /\ hx' = None
    /\ hx_dim1' = None
    /\ UNCHANGED <<hargs, built, hdata, stages, label, loss_weight>>

\* lines 303-305 (FiltrationGCNModel), 453-455 (GCNModel)
HConv1 ==
    /\ hpc = "conv1"
    /\ hx' = Some([rows |-> hx.v.rows, cols |-> built.v.hidden_dim])
    /\ stages' = Append(stages, "conv1")
    /\ hpc' = IF built.v.kind = "FiltrationGCNModel" THEN "topo1"
              ELSE "fake_topo"
    /\ UNCHANGED <<hargs, built, hdata, hx_dim1, label, loss_weight>>
    /\ UNCHANGED <<layer_vars, unit_vars>>

\* lines 310-313: x, x_dim1 = self.topo1(x, data)
HTopo1 ==
    /\ hpc = "topo1"
    /\ LET out == TopoForwardShape(built.v.topo1.v, hx.v, hdata.v.B)
       IN IF IsError(out) THEN HRaise(out.err)
          ELSE /\ hx' = Some(out.v.x)
               /\ hx_dim1' = out.v.x_dim1
               /\ stages' = Append(stages, "topo1")
               /\ hpc' = IF built.v.kind = "TopologyLayer" THEN "returned"
                         ELSE "conv3"
               /\ UNCHANGED <<hargs, built, hdata, label, loss_weight>>
    /\ UNCHANGED <<layer_vars, unit_vars>>

\* lines 457-463
HFakeTopo ==
    /\ hpc = "fake_topo"
    /\ stages' = Append(stages, "fake_topo")
    /\ hpc' = "conv3"
    /\ UNCHANGED <<hargs, built, hdata, hx, hx_dim1, label, loss_weight>>
    /\ UNCHANGED <<layer_vars, unit_vars>>

\* HConv3 going on to the join without the pooling.
HConv3NoPool ==
    /\ hpc = "conv3"
    /\ stages' = Append(stages, "conv3")
    /\ hpc' = IF built.v.kind = "FiltrationGCNModel" THEN "join"
              ELSE "classif"
    /\ UNCHANGED <<hargs, built, hdata, hx, hx_dim1, label, loss_weight>>
    /\ UNCHANGED <<layer_vars, unit_vars>>

\* line 315 (FiltrationGCNModel), line 465 (GCNModel)
HConv3 ==
    /\ hpc = "conv3"
    /\ stages' = Append(stages, "conv3")
    /\ hpc' = "pooling_fun"
    /\ UNCHANGED <<hargs, built, hdata, hx, hx_dim1, label, loss_weight>>
    /\ UNCHANGED <<layer_vars, unit_vars>>

\* line 624
HEmbedding ==
    /\ hpc = "embedding"
    /\ hx' = Some([rows |-> hx.v.rows, cols |-> built.v.hidden_dim])
    /\ stages' = Append(stages, "embedding")
    /\ hpc' = IF built.v.depth > 0 THEN "layers" ELSE "pooling_fun"
    /\ UNCHANGED <<hargs, built, hdata, hx_dim1, label, loss_weight>>
    /\ UNCHANGED <<layer_vars, unit_vars>>

\* lines 626-627: one turn of the loop over self.layers
HLayer ==
    /\ hpc = "layers"
    /\ stages' = Append(stages, "layer")
    /\ hpc' = IF Len(stages) + 1 < built.v.depth + 1 THEN "layers"
              ELSE "pooling_fun"
    /\ UNCHANGED <<hargs, built, hdata, hx, hx_dim1, label, loss_weight>>
    /\ UNCHANGED <<layer_vars, unit_vars>>

\* line 317 (FiltrationGCNModel), 467 (GCNModel), 629 (LargerGCNModel)
HPool ==
    /\ hpc = "pooling_fun"
    /\ hx' = Some([rows |-> IF built.v.pooling_fun = "fake_pool"
                            THEN hx.v.rows ELSE hdata.v.B,
                   cols |-> hx.v.cols])
    /\ stages' = Append(stages, "pooling_fun")
    /\ hpc' = IF built.v.kind = "FiltrationGCNModel" THEN "join"
              ELSE "classif"
    /\ UNCHANGED <<hargs, built, hdata, hx_dim1, label, loss_weight>>
    /\ UNCHANGED <<layer_vars, unit_vars>>

\* lines 319-322
HJoin ==
    /\ hpc = "join"
    /\ IF built.v.dim1
       THEN IF hx.v.rows # hx_dim1.v.rows THEN HRaise("RuntimeError")
            ELSE /\ hx' = Some([rows |-> hx.v.rows,
                                cols |-> hx.v.cols + hx_dim1.v.cols])
                 /\ stages' = Append(stages, "cat")
                 /\ hpc' = "classif"
                 /\ UNCHANGED <<hargs, built, hdata, hx_dim1, label,
                                loss_weight>>
       ELSE /\ hpc' = "classif"
            /\ UNCHANGED <<hargs, built, hdata, hx, hx_dim1, stages, label,
                           loss_weight>>
    /\ UNCHANGED <<layer_vars, unit_vars>>

\* line 324 (FiltrationGCNModel), 469 (GCNModel), 630 (LargerGCNModel)
HClassif ==
    /\ hpc = "classif"
    /\ IF hx.v.cols # built.v.classif_in THEN HRaise("RuntimeError")
       ELSE /\ hx' = Some([rows |-> hx.v.rows, cols |-> built.v.num_classes])
            /\ stages' = Append(stages, "classif")
            /\ hpc' = "returned"
            /\ UNCHANGED <<hargs, built, hdata, hx_dim1, label, loss_weight>>
    /\ UNCHANGED <<layer_vars, unit_vars>>

\* training_step: loss = self.loss(y_hat, y) on the labels of the batch,
\* one per row of y_hat.
TrainingLoss ==
    /\ hpc = "returned"
    /\ built.v.kind # "TopologyLayer"
    /\ \E lab \in [1..hx.v.rows -> 0..(hx.v.cols - 1)] :
          /\ label' = Some(lab)
          /\ loss_weight' = IF built.v.loss = "weighted_loss"
                            THEN Some(WeightedLossWeights(hx.v.cols, lab))
                            ELSE None
    /\ hpc' = "loss"
    /\ UNCHANGED <<hargs, built, hdata, hx, hx_dim1, stages>>
    /\ UNCHANGED <<layer_vars, unit_vars>>

\* The step is over: the next batch may come.
HDiscard ==
    /\ hpc \in {"returned", "loss"}
    /\ hpc' = "idle"
    /\ stages' = <<>>
    /\ hdata' = None
    /\ hx' = None
    /\ hx_dim1' = None
    /\ label' = None
    /\ loss_weight' = None
    /\ UNCHANGED <<hargs, built>>
    /\ UNCHANGED <<layer_vars, unit_vars>>

HostNext ==
    \/ \E kind \in Kinds : \E a \in ArgsOf(kind) : Construct(kind, a)
    \/ \E B \in 1..MaxGraphs : \E N \in B..MaxNodes : HForwardCall(N, B)
    \/ HConv1
    \/ HTopo1
    \/ HFakeTopo
    \/ HConv3
    \/ HEmbedding
    \/ HLayer
    \/ HPool
    \/ HJoin
    \/ HClassif
    \/ TrainingLoss
    \/ HDiscard

(***************************************************************************)
(* The specifications: the layer's forward pass on its own, and the host   *)
(* models.                                                                 *)
(***************************************************************************)
\* A constructed layer, no call yet; no host model.
Init ==
    /\ layer \in Layers
    /\ batch = None
    /\ x = None
    /\ pc = "idle"
    /\ filtered_v = None
    /\ filtered_e = None
    /\ persistences0 = None
    /\ persistences1 = None
    /\ coord_activations = None
    /\ out_activations = None
    /\ graph_activations1 = None
    /\ result = None
    /\ first = None
    /\ hargs = None
    /\ built = None
    /\ hpc = "new"
    /\ stages = <<>>
    /\ hdata = None
    /\ hx = None
    /\ hx_dim1 = None
    /\ label = None
    /\ loss_weight = None
    /\ c_activations = None
    /\ c_mask = None
    /\ c_slices = None
    /\ c_out = None

\* No host model yet; no layer under study.
HostInit ==
    /\ layer = None
    /\ batch = None
    /\ x = None
    /\ pc = "off"
    /\ filtered_v = None
    /\ filtered_e = None
    /\ persistences0 = None
    /\ persistences1 = None
    /\ coord_activations = None
    /\ out_activations = None
    /\ graph_activations1 = None
    /\ result = None
    /\ first = None
    /\ hargs = None
    /\ built = None
    /\ hpc = "new"
    /\ stages = <<>>
    /\ hdata = None
    /\ hx = None
    /\ hx_dim1 = None
    /\ label = None
    /\ loss_weight = None
    /\ c_activations = None
    /\ c_mask = None
    /\ c_slices = None
    /\ c_out = None

\* The batches of the runs with a faulty primitive: one graph.
FaultBatches == {b \in Batches : NumGraphs(b) = 1}

\* The layer with a primitive that may return a wrong number of filtration
\* entries (at least one).
FaultNext ==
    \/ \E b \in FaultBatches : \E xs \in Features(b, layer.features_in) :
          Call(b, xs)
    \/ \E n0, n1 \in 1..(MaxFiltrations + 1) : ComputePersistenceResized(n0, n1)
    \/ Dim0
    \/ Dim1
    \/ Return
    \/ Discard
    \/ DiscardRaised

\* The inputs of collapse_dim1 taken on its own: activations of up to
\* MaxNodes rows and two columns, any mask, any non-decreasing offsets.
CollapseActivations ==
    UNION {{[rows |-> R, cols |-> 2, at |-> at] :
               at \in [0..(R - 1) -> [1..2 -> 0..MaxValue]]}
           : R \in 0..MaxNodes}

CollapseSlices(R) ==
    {sl \in UNION {[1..(B + 1) -> 0..R] : B \in 1..MaxGraphs} :
        \A i \in 1..(Len(sl) - 1) : sl[i] <= sl[i + 1]}

CollapseInit ==
    /\ c_activations \in {Some(a) : a \in CollapseActivations}
    /\ c_mask \in {Some(m) : m \in [0..(c_activations.v.rows - 1) -> BOOLEAN]}
    /\ c_slices \in {Some(sl) : sl \in CollapseSlices(c_activations.v.rows)}
    /\ c_out = None
    /\ layer = None
    /\ batch = None
    /\ x = None
    /\ pc = "off"
    /\ filtered_v = None
    /\ filtered_e = None
    /\ persistences0 = None
    /\ persistences1 = None
    /\ coord_activations = None
    /\ out_activations = None
    /\ graph_activations1 = None
    /\ result = None
    /\ first = None
    /\ hargs = None
    /\ built = None
    /\ hpc = "off"
    /\ stages = <<>>
    /\ hdata = None
    /\ hx = None
    /\ hx_dim1 = None
    /\ label = None
    /\ loss_weight = None

\* collapse_dim1(activations, mask, slices) is called and returns.
CollapseCall ==
    /\ c_out = None
    /\ c_out' = Some(collapse_dim1(c_activations.v, c_mask.v, c_slices.v))
    /\ UNCHANGED <<c_activations, c_mask, c_slices>>
    /\ UNCHANGED <<layer_vars, host_vars>>

CollapseNext == CollapseCall

Spec == Init /\ [][LayerNext]_vars

HostSpec == HostInit /\ [][HostNext]_vars

FaultSpec == Init /\ [][FaultNext]_vars

CollapseSpec == CollapseInit /\ [][CollapseNext]_vars

(***************************************************************************)
(* Properties of the layer's forward pass (specification Spec).            *)
(***************************************************************************)
\* The columns of a row that belong to filtration f (0-based), k per
\* filtration.
Part(row, f, k) == SubSeq(row, f * k + 1, (f + 1) * k)

Width(mods) == SeqSum([i \in 1..Len(mods) |-> mods[i].output_dim])

GraphsOf(b) == 1..NumGraphs(b)

\* C1: for every edge e = (u, v) and every filtration f, the edge value handed
\* to the persistence primitive is one of the two endpoint values and not
\* below either of them, i.e. their maximum.
C1_EdgeValueIsMax ==
    filtered_e # None =>
        \A f \in DOMAIN filtered_e.v : \A e \in DOMAIN filtered_e.v[f] :
            LET a == filtered_v.v[f][batch.v.edge_index[0][e]]
                b == filtered_v.v[f][batch.v.edge_index[1][e]]
                ev == filtered_e.v[f][e]
            IN /\ ev \in {a, b}
               /\ ev >= a
               /\ ev >= b

\* C1 witness: an edge whose endpoints differ in value has been extended.
C1_Witness ==
    /\ filtered_e # None
    /\ \E f \in DOMAIN filtered_e.v : \E e \in DOMAIN filtered_e.v[f] :
          filtered_v.v[f][batch.v.edge_index[0][e]]
            # filtered_v.v[f][batch.v.edge_index[1][e]]

\* C2 (as claimed): with dim1 and the coordinate functions, the part of graph
\* g's dimension-1 vector that belongs to filtration f is the sum of the
\* coordinate-function outputs over exactly g's slots whose pair in f is not
\* (0, 0).
C2_PerFiltrationExclusion ==
    (pc = "return" /\ layer.dim1 /\ ~layer.set2set) =>
        LET k == Width(layer.coord_fun_modules1.v)
            b == batch.v
        IN \A g \in GraphsOf(b) : \A f \in DOMAIN persistences1.v :
              Part(graph_activations1.v.v.at[g - 1], f, k) =
                  SumRows(CoordFunCat(layer.coord_fun_modules1.v,
                                      persistences1.v[f]).at,
                          {e \in SliceRows(b.e_slices, g) :
                              persistences1.v[f][e] # Sentinel}, k)

\* Graph g has no valid dimension-1 pair: every slot of its edge slice holds
\* the sentinel under every filtration.
NoCycles(g) ==
    \A f \in DOMAIN persistences1.v :
        \A e \in SliceRows(batch.v.e_slices, g) :
            persistences1.v[f][e] = Sentinel

\* The width of the dimension-1 graph vector.
Dim1Width ==
    layer.num_filtrations *
        (IF layer.set2set THEN layer.set_out_dim
         ELSE Width(layer.coord_fun_modules1.v))

\* C3: with dim1, a graph without a valid dimension-1 pair (no cycle, also
\* an empty edge slice) gets the all-zero vector of the full width; the
\* forward pass does not raise.
C3_NoCyclesGivesZeros ==
    /\ pc # "raised"
    /\ (pc = "return" /\ layer.dim1) =>
          \A g \in GraphsOf(batch.v) :
              NoCycles(g) =>
                  graph_activations1.v.v.at[g - 1] = Zeros(Dim1Width)

\* C3 witness: a batch with a graph of no edges and a graph whose edges
\* close no cycle, collapsed by a layer whose coordinate functions do not
\* vanish on (0, 0).
C3_Witness ==
    /\ pc = "return"
    /\ layer.dim1
    /\ ~layer.set2set
    /\ layer.coord_fun_modules1.v[1].theta.intercept # 0
    /\ \E g \in GraphsOf(batch.v) :
          SliceRows(batch.v.e_slices, g) = {} /\ NoCycles(g)
    /\ \E g \in GraphsOf(batch.v) :
          SliceRows(batch.v.e_slices, g) # {} /\ NoCycles(g)

\* C4 (as claimed): on the dimension-0 path, a graph all of whose slots hold
\* the sentinel under filtration f has an all-zero coordinate activation for
\* f in the tensor concatenated with the node features.
C4_NoPairsGivesZeros0 ==
    coord_activations # None =>
        LET k == coord_activations.v.cols \div layer.num_filtrations
            b == batch.v
        IN \A g \in GraphsOf(b) : \A f \in DOMAIN persistences0.v :
              (\A n \in SliceRows(b.x_slices, g) :
                   persistences0.v[f][n] = Sentinel)
              => \A n \in SliceRows(b.x_slices, g) :
                     Part(coord_activations.v.at[n], f, k) = Zeros(k)

\* C10: forward returns the pair (node-level output, dimension-1 vector):
\* the first has one row per node and features_out columns; the second is
\* None without dim1 and has one row per graph with it.
C10_OutputShapes ==
    (pc = "idle" /\ result # None) =>
        LET out == result.v.out_activations
            g1 == result.v.graph_activations1
        IN /\ ~IsError(result)
           /\ out.rows = NumNodes(batch.v)
           /\ DOMAIN out.at = 0..(NumNodes(batch.v) - 1)
           /\ \A n \in DOMAIN out.at : Len(out.at[n]) = layer.features_out
           /\ (g1 = None) <=> ~layer.dim1
           /\ layer.dim1 =>
                 /\ g1.v.rows = NumGraphs(batch.v)
                 /\ DOMAIN g1.v.at = 0..(NumGraphs(batch.v) - 1)

\* C10 witness: a dim1 layer has returned for a batch whose numbers of
\* nodes, edges and graphs all differ.
C10_Witness ==
    /\ pc = "idle"
    /\ result # None
    /\ layer.dim1
    /\ NumGraphs(batch.v) # NumEdges(batch.v)
    /\ NumGraphs(batch.v) # NumNodes(batch.v)
    /\ NumEdges(batch.v) > 0

(***************************************************************************)
(* Properties of the host models (specification HostSpec).                 *)
(***************************************************************************)
HostModels == {"FiltrationGCNModel", "GCNModel", "LargerGCNModel"}

\* A constructor has been called for kind k.
Called(k) == hargs # None /\ hargs.v.kind = k

\* The constructor call returned an object.
Constructed == hargs # None /\ ~IsError(built)

CountOf(lab, c) == Cardinality({i \in 1..Len(lab) : lab[i] = c})

\* The labels of the worked example: counts 5, 3, 0, 2 out of 10.
ExampleLabels == <<0, 0, 0, 0, 0, 1, 1, 1, 3, 3>>

\* C5: for V >= 1 labels in [0, n_classes), the weight of class c in the
\* weighted loss of LargerGCNModel is (V - count_c) / V when count_c > 0 and
\* 0 when count_c = 0; counts 5, 3, 0, 2 of 10 give 5/10, 7/10, 0, 8/10.
C5_WeightedLossWeights ==
    /\ (hpc = "loss" /\ loss_weight # None) =>
          LET lab == label.v
              V == Len(lab)
          IN /\ V >= 1
             /\ DOMAIN loss_weight.v = 0..(hx.v.cols - 1)
             /\ \A c \in DOMAIN loss_weight.v :
                   LET w == loss_weight.v[c]
                   IN /\ w[2] > 0
                      /\ CountOf(lab, c) > 0 =>
                            w[1] * V = (V - CountOf(lab, c)) * w[2]
                      /\ CountOf(lab, c) = 0 => w[1] = 0
    /\ LET w == WeightedLossWeights(4, ExampleLabels)
       IN \A c \in 0..3 :
             w[c][1] * 10 = <<5, 7, 0, 8>>[c + 1] * w[c][2] /\ w[c][2] > 0

\* C5 witness: the weighted loss has been computed on labels where one class
\* is absent and two classes are present with different counts.
C5_Witness ==
    /\ hpc = "loss"
    /\ loss_weight # None
    /\ \E c \in DOMAIN loss_weight.v : CountOf(label.v, c) = 0
    /\ \E c, d \in DOMAIN loss_weight.v :
          /\ CountOf(label.v, c) > 0
          /\ CountOf(label.v, d) > CountOf(label.v, c)

\* C6 (as claimed): every host model has the loss of its task: plain
\* cross-entropy for graph classification, the class-weighted one for node
\* classification.
C6_LossByTaskEveryModel ==
    (Constructed /\ hargs.v.kind \in HostModels) =>
        built.v.loss = IF hargs.v.args.task = "NODE_CLASSIFICATION"
                       THEN "weighted_loss"
                       ELSE "CrossEntropyLoss"

\* C6 (amended): only LargerGCNModel selects its loss by the task, plain
\* cross-entropy for graph classification and the class-weighted one for
\* node classification; FiltrationGCNModel and GCNModel use plain
\* cross-entropy for both tasks, so their training step weights no class.
C6_LossByTaskLargerOnly ==
    (Constructed /\ hargs.v.kind \in HostModels) =>
        LET weighted == /\ hargs.v.kind = "LargerGCNModel"
                        /\ hargs.v.args.task = "NODE_CLASSIFICATION"
        IN /\ weighted => built.v.loss = "weighted_loss"
           /\ ~weighted => built.v.loss = "CrossEntropyLoss"
           /\ hpc = "loss" => (weighted <=> loss_weight # None)

\* C6 witness: a FiltrationGCNModel built for node classification has
\* computed its training loss.
C6_Witness ==
    /\ Called("FiltrationGCNModel")
    /\ hargs.v.args.task = "NODE_CLASSIFICATION"
    /\ hpc = "loss"
    /\ loss_weight = None

\* The construction failed with error e and left no object.
FailedWith(e) == built = Raise(e) /\ hpc = "failed"

\* C7 (as claimed): FiltrationGCNModel with node classification and dim1
\* fails with NotImplementedError, and every host model with an unknown task
\* fails with RuntimeError.
C7_TaskErrors ==
    hargs # None =>
        /\ (/\ hargs.v.kind = "FiltrationGCNModel"
            /\ hargs.v.args.task = "NODE_CLASSIFICATION"
            /\ hargs.v.args.dim1) => FailedWith("NotImplementedError")
        /\ (/\ hargs.v.kind \in HostModels
            /\ hargs.v.args.task = "OTHER") => FailedWith("RuntimeError")

\* FiltrationGCNModel builds its TopologyLayer before it looks at the task;
\* with dim1 and unset dimension-1 counts that construction fails first.
LayerFailsFirst ==
    /\ hargs.v.kind = "FiltrationGCNModel"
    /\ hargs.v.args.dim1
    /\ hargs.v.args.num_coord_funs1 = None

\* C7 (amended): these constructions fail and leave no object to call
\* forward on; the error is NotImplementedError (node classification with
\* dim1) or RuntimeError (unknown task), except that FiltrationGCNModel with
\* dim1 and unset dimension-1 counts fails earlier, in the construction of
\* its TopologyLayer, with that construction's error.
C7_TaskErrorsAfterLayer ==
    hargs # None =>
        /\ (/\ hargs.v.kind = "FiltrationGCNModel"
            /\ hargs.v.args.task = "NODE_CLASSIFICATION"
            /\ hargs.v.args.dim1) =>
                /\ IsError(built)
                /\ hpc = "failed"
                /\ ~LayerFailsFirst => built = Raise("NotImplementedError")
        /\ (/\ hargs.v.kind \in HostModels
            /\ hargs.v.args.task = "OTHER") =>
                /\ IsError(built)
                /\ hpc = "failed"
                /\ ~LayerFailsFirst => built = Raise("RuntimeError")

\* C7 witness: FiltrationGCNModel for node classification with dim1 and set
\* dimension-1 counts was refused.
C7_Witness ==
    /\ Called("FiltrationGCNModel")
    /\ hargs.v.args.task = "NODE_CLASSIFICATION"
    /\ hargs.v.args.dim1
    /\ hargs.v.args.num_coord_funs1 # None
    /\ FailedWith("NotImplementedError")

\* C8: with dim1 and num_coord_funs1 unset, the construction fails, of
\* TopologyLayer itself and through FiltrationGCNModel, with set2set or
\* without; nothing is left to call forward on.
C8_UnsetCountsFail ==
    (/\ hargs # None
     /\ hargs.v.kind \in {"TopologyLayer", "FiltrationGCNModel"}
     /\ hargs.v.args.dim1
     /\ hargs.v.args.num_coord_funs1 = None) =>
        /\ IsError(built)
        /\ hpc = "failed"

\* C8 witness: FiltrationGCNModel with set2set, dim1 and unset counts, for
\* graph classification, failed to construct.
C8_Witness ==
    /\ Called("FiltrationGCNModel")
    /\ hargs.v.args.task = "GRAPH_CLASSIFICATION"
    /\ hargs.v.args.dim1
    /\ hargs.v.args.set2set
    /\ hargs.v.args.num_coord_funs1 = None
    /\ IsError(built)
    /\ hpc = "failed"

\* The stage a call of a forward pass belongs to.
StageKind(call) ==
    CASE call = "embedding" -> "embed"
      [] call \in {"conv1", "conv3", "layer"} -> "message-pass"
      [] call = "topo1" -> "topological layer"
      [] call = "pooling_fun" -> "pool-per-graph"
      [] call = "cat" -> "join"
      [] call = "classif" -> "classify"
      [] OTHER -> "none"

StagesDone == [i \in 1..Len(stages) |-> StageKind(stages[i])]

IsPrefix(s, t) == Len(s) <= Len(t) /\ s = SubSeq(t, 1, Len(s))

\* C9 (as claimed): a finished forward pass of FiltrationGCNModel went
\* through embed, message-pass, topological layer, message-pass,
\* pool-per-graph, classify, in this order and once each, the join with the
\* dimension-1 vector falling between pool-per-graph and classify.
C9_SixStages ==
    (Called("FiltrationGCNModel") /\ hpc \in {"returned", "loss"}) =>
        /\ SelectSeq(StagesDone, LAMBDA k : k # "join") =
              <<"embed", "message-pass", "topological layer", "message-pass",
                "pool-per-graph", "classify">>
        /\ \A i \in 1..Len(StagesDone) :
              StagesDone[i] = "join" =>
                  /\ StagesDone[i - 1] = "pool-per-graph"
                  /\ StagesDone[i + 1] = "classify"

\* The stages of FiltrationGCNModel.forward.
FiltrationStages(dim1) ==
    <<"message-pass", "topological layer", "message-pass", "pool-per-graph">>
      \o (IF dim1 THEN <<"join">> ELSE <<>>) \o <<"classify">>

\* C9 (amended): FiltrationGCNModel.forward has no embed stage of its own:
\* it goes through message-pass, topological layer, message-pass,
\* pool-per-graph, classify, in this order and once each; with dim1 the
\* dimension-1 vector is joined once, after pool-per-graph and before
\* classify, and without dim1 nothing is joined.
C9_FiveStages ==
    (Called("FiltrationGCNModel") /\ Constructed) =>
        /\ IsPrefix(StagesDone, FiltrationStages(built.v.dim1))
        /\ hpc \in {"returned", "loss"} =>
              StagesDone = FiltrationStages(built.v.dim1)

\* C9 witness: a forward pass of a FiltrationGCNModel with dim1 has
\* returned.
C9_Witness ==
    /\ Called("FiltrationGCNModel")
    /\ Constructed
    /\ built.v.dim1
    /\ hpc = "returned"
    /\ Len(stages) > 0

(***************************************************************************)
(* Properties of the layer under a primitive that returns a wrong number   *)
(* of filtration entries (specification FaultSpec).                        *)
(***************************************************************************)
\* The number of entries of a pair tensor along its filtration axis.
Entries(p) == Cardinality(DOMAIN p.v)

Mismatch0 == persistences0 # None /\ Entries(persistences0) # layer.num_filtrations

Mismatch1 == persistences1 # None /\ Entries(persistences1) # layer.num_filtrations

\* C11 (as claimed): when either pair tensor has not num_filtrations
\* entries, forward fails; it never gets to its return statement.
C11_AnyMismatchFatal ==
    (Mismatch0 \/ Mismatch1) => pc # "return"

\* C11 (amended): when the dimension-0 tensor has not num_filtrations
\* entries, forward fails with an error at self.out and returns nothing,
\* under both policies.  A mismatch in the dimension-1 tensor alone is not
\* noticed by forward: with dim1 it returns a dimension-1 vector as wide as
\* the entries it was given, which is not the declared width.
C11_Dim0MismatchFatal ==
    /\ Mismatch0 => pc \in {"dim0", "raised"}
    /\ pc = "raised" => Mismatch0 /\ IsError(result) /\ out_activations = None
    /\ (pc = "return" /\ layer.dim1) =>
          LET got == graph_activations1.v.v
          IN /\ got.cols * layer.num_filtrations
                  = Dim1Width * Entries(persistences1)
             /\ \A g \in DOMAIN got.at : Len(got.at[g]) = got.cols
             /\ Mismatch1 => got.cols # Dim1Width

\* C11 witness: forward has raised on a dimension-0 tensor with one entry
\* too many, under the set2set policy.
C11_Witness ==
    /\ pc = "raised"
    /\ layer.set2set
    /\ Entries(persistences0) = layer.num_filtrations + 1
    /\ IsError(result)

Moved(slices, r) ==
    IF r >= slices[2] THEN r - slices[2]
    ELSE r + (slices[3] - slices[2])

SwappedSlices(slices) == <<0, slices[3] - slices[2], slices[3]>>

\* A batch of two graphs with the graphs in the other order, the order of
\* nodes and edges inside each graph kept.
SwappedBatch(b) ==
    [x_slices |-> SwappedSlices(b.x_slices),
     e_slices |-> SwappedSlices(b.e_slices),
     edge_index |->
         [k \in 0..1 |->
             [e \in 0..(NumEdges(b) - 1) |->
                 LET old == CHOOSE o \in 0..(NumEdges(b) - 1) :
                                Moved(b.e_slices, o) = e
                 IN Moved(b.x_slices, b.edge_index[k][old])]]]

SwappedFeatures(b, xs) ==
    [n \in 0..(NumNodes(b) - 1) |->
        xs[CHOOSE o \in 0..(NumNodes(b) - 1) : Moved(b.x_slices, o) = n]]

\* The pair tensors forward computes for batch b and features xs.
PairsOf(b, xs) ==
    LET in == PersistenceInputs(layer, xs, b)
    IN PersistenceHomology(in.filtered_v, in.filtered_e, in.edge_index,
                           in.vertex_slices, in.edge_slices)

\* C13: under the coordinate-function policy, packing the two graphs of a
\* batch in the other order changes no node's dimension-0 activation and no
\* graph's dimension-1 vector.
C13_BatchOrderInvariance ==
    (pc = "return" /\ ~layer.set2set /\ NumGraphs(batch.v) = 2) =>
        LET b == batch.v
            sb == SwappedBatch(b)
            pairs == PairsOf(sb, SwappedFeatures(b, x.v))
            act0 == compute_coord_activations(layer, pairs.p0, sb, FALSE)
            act1 == GraphActivations1(layer, pairs.p1, sb)
        IN /\ \A n \in 0..(NumNodes(b) - 1) :
                 act0.at[Moved(b.x_slices, n)] = coord_activations.v.at[n]
           /\ layer.dim1 =>
                 \A g \in 0..1 :
                     act1.v.at[1 - g] = graph_activations1.v.v.at[g]

\* C13 witness: two graphs of different sizes, the first with a cycle whose
\* dimension-1 vector is not zero, under the coordinate-function policy.
C13_Witness ==
    /\ pc = "return"
    /\ ~layer.set2set
    /\ layer.dim1
    /\ NumGraphs(batch.v) = 2
    /\ batch.v.x_slices[2] # batch.v.x_slices[3] - batch.v.x_slices[2]
    /\ graph_activations1.v.v.at[0] # Zeros(Dim1Width)
    /\ graph_activations1.v.v.at[0] # graph_activations1.v.v.at[1]

(***************************************************************************)
(* The pairs the primitive returns (specification Spec).                   *)
(***************************************************************************)
EdgesOf(b, g) == SliceRows(b.e_slices, g)

NodesOf(b, g) == SliceRows(b.x_slices, g)

\* The nodes reached from the set S over the edges of graph g in at most k
\* steps.
RECURSIVE Reached(_, _, _, _)
Reached(b, g, S, k) ==
    IF k = 0 THEN S
    ELSE Reached(b, g,
                 S \cup {n \in NodesOf(b, g) :
                            \E e \in EdgesOf(b, g) :
                               \/ b.edge_index[0][e] \in S
                                    /\ b.edge_index[1][e] = n
                               \/ b.edge_index[1][e] \in S
                                    /\ b.edge_index[0][e] = n},
                 k - 1)

ConnectedGraph(b, g) ==
    Reached(b, g, {b.x_slices[g]}, Cardinality(NodesOf(b, g))) = NodesOf(b, g)

\* Node a appears before node c in the sweep of filtration f.
Before(f, a, c) ==
    \/ filtered_v.v[f][a] < filtered_v.v[f][c]
    \/ filtered_v.v[f][a] = filtered_v.v[f][c] /\ a < c

\* The endpoint of edge e that appears later in the sweep of filtration f.
LaterEndpoint(f, e) ==
    LET u == batch.v.edge_index[0][e]
        v == batch.v.edge_index[1][e]
    IN IF Before(f, u, v) THEN v ELSE u

\* Every pair of either dimension dies no earlier than it is born.
DeathAfterBirth ==
    \A f \in DOMAIN persistences0.v :
        /\ \A n \in DOMAIN persistences0.v[f] :
              persistences0.v[f][n][2] >= persistences0.v[f][n][1]
        /\ \A e \in DOMAIN persistences1.v[f] :
              persistences1.v[f][e][2] >= persistences1.v[f][e][1]

\* The first node of graph g in the sweep of filtration f.
Oldest(f, g) ==
    CHOOSE a \in NodesOf(batch.v, g) :
        \A c \in NodesOf(batch.v, g) \ {a} : Before(f, a, c)

C15_PrimitiveInputs ==
    /\ (batch # None /\ pc # "idle") =>
          LET b == batch.v
              in == PersistenceInputs(layer, x.v, b)
              F == layer.num_filtrations
              N == NumNodes(b)
              E == NumEdges(b)
          IN /\ DOMAIN in.filtered_v = 0..(F - 1)
             /\ DOMAIN in.filtered_e = 0..(F - 1)
             /\ \A f \in 0..(F - 1) :
                   /\ DOMAIN in.filtered_v[f] = 0..(N - 1)
                   /\ DOMAIN in.filtered_e[f] = 0..(E - 1)
                   /\ \A n \in 0..(N - 1) :
                         <<in.filtered_v[f][n]>> =
                             FiltrationModule(layer.filtration_modules[f + 1],
                                              x.v[n])
                   /\ \A e \in 0..(E - 1) :
                         in.filtered_e[f][e] =
                             Max2(in.filtered_v[f][b.edge_index[0][e]],
                                  in.filtered_v[f][b.edge_index[1][e]])
             /\ DOMAIN in.edge_index = 0..(E - 1)
             /\ \A e \in 0..(E - 1) :
                   in.edge_index[e] = <<b.edge_index[0][e], b.edge_index[1][e]>>
             /\ in.vertex_slices = b.x_slices
             /\ in.edge_slices = b.e_slices
             /\ filtered_v # None =>
                   /\ filtered_v.v = in.filtered_v
                   /\ filtered_e.v = in.filtered_e
                   /\ persistences0.v = PairsOf(b, x.v).p0
                   /\ persistences1.v = PairsOf(b, x.v).p1
    /\ (persistences0 = None \/ persistences1 = None) =>
          /\ coord_activations = None
          /\ out_activations = None
          /\ graph_activations1 = None

\* C15 witness: the primitive has returned for two filtrations, several
\* nodes and an edge, the heads disagreeing on a node, and no coordinate
\* function has run yet.
C15_Witness ==
    /\ pc = "dim0"
    /\ layer.num_filtrations = 2
    /\ NumNodes(batch.v) = 3
    /\ NumEdges(batch.v) > 0
    /\ \E n \in 0..2 : filtered_v.v[0][n] # filtered_v.v[1][n]
    /\ \E n \in 0..2 : filtered_v.v[0][n] # filtered_v.v[0][0]
    /\ persistences0 # None
    /\ persistences1 # None
    /\ coord_activations = None

(***************************************************************************)
(* What a forward pass keeps and what it touches (specification Spec).     *)
(***************************************************************************)
\* C16: between calls and at the start of every call the layer holds no
\* filtration values and no pairs; a forward pass changes neither the layer
\* nor the batch and the features it was given.
C16_NothingKept ==
    [][/\ pc' \in {"idle", "compute_persistence"} =>
             /\ filtered_v' = None
             /\ filtered_e' = None
             /\ persistences0' = None
             /\ persistences1' = None
       /\ layer' = layer
       /\ (pc # "idle" \/ pc' # "idle") /\ batch # None =>
             batch' = batch /\ x' = x]_vars

\* C16 witness: a second call starts after a first one has computed and
\* returned, and nothing of the first is held.
C16_Witness ==
    /\ pc = "compute_persistence"
    /\ first # None
    /\ filtered_v = None
    /\ persistences0 = None
    /\ NumEdges(batch.v) > 0

(***************************************************************************)
(* collapse_dim1 on its own (specification CollapseSpec).                  *)
(***************************************************************************)
\* The sum of h over the finite set S.
RECURSIVE Total(_, _)
Total(S, h) ==
    IF S = {} THEN 0
    ELSE LET r == CHOOSE r \in S : TRUE
         IN h[r] + Total(S \ {r}, h)

\* The rows collapse_dim1 owes to row i of its output (0-based).
Owed(i) ==
    {r \in 0..(c_activations.v.rows - 1) :
        /\ c_slices.v[i + 1] <= r
        /\ r < c_slices.v[i + 2]
        /\ c_mask.v[r]}

\* C17: for non-decreasing offsets, collapse_dim1 returns len(slices) - 1
\* rows, and row i is the element-wise sum of the rows r of activations
\* with slices[i] <= r < slices[i+1] and mask[r]; no other row counts.
C17_CollapseRows ==
    c_out # None =>
        LET B == Len(c_slices.v) - 1
        IN /\ c_out.v.rows = B
           /\ DOMAIN c_out.v.at = 0..(B - 1)
           /\ \A i \in 0..(B - 1) :
                 /\ Len(c_out.v.at[i]) = c_activations.v.cols
                 /\ \A j \in 1..c_activations.v.cols :
                       c_out.v.at[i][j] =
                           Total(Owed(i),
                                 [r \in 0..(c_activations.v.rows - 1) |->
                                     c_activations.v.at[r][j]])

\* C17 witness: collapsed for two graphs, with one row summed, one row of
\* the same slice masked out and one row outside every slice, none of them
\* zero.
C17_Witness ==
    /\ c_out # None
    /\ c_slices.v = <<0, 2, 2>>
    /\ c_activations.v.rows = 3
    /\ c_mask.v = [r \in 0..2 |-> r # 1]
    /\ \A r \in 0..2 : c_activations.v.at[r] = <<1, 1>>

(***************************************************************************)
(* The range of the class weights (specification HostSpec).                *)
(***************************************************************************)
\* C18: every class weight of the weighted loss lies in [0, 1); it is zero
\* exactly when the class is absent from the labels or holds all of them,
\* so all weights are zero when the labels are of one class.
C18_WeightRange ==
    (hpc = "loss" /\ loss_weight # None) =>
        LET lab == label.v
            V == Len(lab)
        IN /\ \A c \in DOMAIN loss_weight.v :
                 LET w == loss_weight.v[c]
                 IN /\ w[2] > 0
                    /\ 0 <= w[1]
                    /\ w[1] < w[2]
                    /\ w[1] = 0 <=>
                          (CountOf(lab, c) = 0 \/ CountOf(lab, c) = V)
           /\ (\E c \in DOMAIN loss_weight.v : CountOf(lab, c) = V) =>
                 \A c \in DOMAIN loss_weight.v : loss_weight.v[c][1] = 0

\* C18 witness: the weighted loss has been computed on several labels that
\* are all of one class.
C18_Witness ==
    /\ hpc = "loss"
    /\ loss_weight # None
    /\ Len(label.v) > 1
    /\ \E c \in DOMAIN loss_weight.v : CountOf(label.v, c) = Len(label.v)

====
